---- MODULE Spec2Model ----
(***************************************************************************)
(* The Monkey interpreter front end: token model, Pratt parser, AST        *)
(* printer and the evaluator's environment chain.                          *)
(*                                                                         *)
(* Strings that the program inspects character by character (token         *)
(* literals, the text String() prints) are sequences of one-character      *)
(* strings; token kinds are TLA+ strings as in token.go.                   *)
(***************************************************************************)
EXTENDS Integers, Sequences, FiniteSets, TLC

VARIABLES
    l,          \* Parser.l: the lexer it reads from, [tokens, position]
    curToken,   \* Parser.curToken
    peekToken,  \* Parser.peekToken
    errors,     \* Parser.errors
    steps,      \* loop iterations and parseExpression entries made so far
    stalled,    \* some loop iteration ended without having consumed a token
    program,    \* ParseProgram's program.Statements
    pc,         \* where the caller of the parser is
    text,       \* what program.String() returned
    again,      \* the outcome of parsing text: [statements, errors]
    chain,      \* how the input was built, when it is an operator chain
    envs,       \* the heap of Environment objects: [store, outer] each
    refs,       \* the environments the program holds, each with the
                \* bindings made through it and the outer it was given
    obs,        \* the latest environment operation and what it returned
    ident,      \* the spelling handed to LookupIdent
    tokType,    \* what LookupIdent returned for it
    stdin,      \* the lines repl.Start's scanner will deliver
    scanned,    \* how many of them scanner.Scan() has returned
    lex,        \* repl.Start's l: the lexer over the current line
    out,        \* what repl.Start has printed, one Printf each
    at          \* where repl.Start is

vars == <<l, curToken, peekToken, errors, steps, stalled, program, pc, text,
          again, chain, envs, refs, obs, ident, tokType, stdin, scanned, lex,
          out, at>>

parserVars ==
    <<l, curToken, peekToken, errors, steps, stalled, program, pc, text, again,
      chain>>
envVars == <<envs, refs, obs>>
tokVars == <<ident, tokType>>
replVars == <<stdin, scanned, lex, out, at>>

(***************************************************************************)
(* Bounds of the model.                                                    *)
(***************************************************************************)
\* longest token stream enumerated exhaustively over Alphabet
MaxLen == 3
\* budget of loop iterations and parseExpression entries of one ParseProgram
MaxSteps == 60

(***************************************************************************)
(* token/token.go                                                          *)
(***************************************************************************)
ILLEGAL == "ILLEGAL"
EOF == "EOF"
IDENT == "IDENT"
INT == "INT"
STRING_ == "STRING"
ASSIGN == "="
PLUS == "+"
MINUS == "-"
BANG == "!"
ASTERISK == "*"
SLASH == "/"
LT == "<"
GT == ">"
EQ == "=="
NOT_EQ == "!="
COMMA == ","
SEMICOLON == ";"
LPAREN == "("
RPAREN == ")"
LBRACE == "{"
RBRACE == "}"
FUNCTION == "FUNCTION"
LET_ == "LET"
TRUE_ == "TRUE"
FALSE_ == "FALSE"
IF_ == "IF"
ELSE_ == "ELSE"
RETURN == "RETURN"

TokenTypes ==
    {ILLEGAL, EOF, IDENT, INT, STRING_, ASSIGN, PLUS, MINUS, BANG, ASTERISK,
     SLASH, LT, GT, EQ, NOT_EQ, COMMA, SEMICOLON, LPAREN, RPAREN, LBRACE,
     RBRACE, FUNCTION, LET_, TRUE_, FALSE_, IF_, ELSE_, RETURN}

\* type Token struct { Type; Literal }
Token(type, literal) == [Type |-> type, Literal |-> literal]

\* var keywords = map[string]TokenType{...}
keywords ==
    [s \in {<<"f", "n">>, <<"l", "e", "t">>, <<"t", "r", "u", "e">>,
            <<"f", "a", "l", "s", "e">>, <<"i", "f">>, <<"e", "l", "s", "e">>,
            <<"r", "e", "t", "u", "r", "n">>} |->
        CASE s = <<"f", "n">> -> FUNCTION
          [] s = <<"l", "e", "t">> -> LET_
          [] s = <<"t", "r", "u", "e">> -> TRUE_
          [] s = <<"f", "a", "l", "s", "e">> -> FALSE_
          [] s = <<"i", "f">> -> IF_
          [] s = <<"e", "l", "s", "e">> -> ELSE_
          [] s = <<"r", "e", "t", "u", "r", "n">> -> RETURN]

\* A keyword lookup that folds case, as a lexer for a case-insensitive
\* language would.
Lower(c) ==
    CASE c = "F" -> "f" [] c = "N" -> "n" [] c = "L" -> "l" [] c = "E" -> "e"
      [] c = "T" -> "t" [] c = "I" -> "i" [] c = "R" -> "r" [] c = "U" -> "u"
      [] c = "A" -> "a" [] c = "S" -> "s" [] OTHER -> c

LookupIdentFoldCase(s) ==
    LET low == [i \in 1..Len(s) |-> Lower(s[i])]
    IN IF low \in DOMAIN keywords THEN keywords[low] ELSE IDENT

\* func LookupIdent(ident string) TokenType
LookupIdent(s) ==
    IF s \in DOMAIN keywords THEN keywords[s] ELSE IDENT

(***************************************************************************)
(* The lexer the parser reads from.  lexer.go delivers the tokens of the    *)
(* source text one per NextToken call and EOF from then on; here a lexer is *)
(* the token stream it will deliver and the number of calls made so far.    *)
(***************************************************************************)
EOFToken == Token(EOF, <<>>)

NewLexer(tokens) == [tokens |-> tokens, position |-> 0]

\* func (l *Lexer) NextToken() token.Token: the token and the lexer after it
NextToken(lx) ==
    [tok |-> IF lx.position < Len(lx.tokens)
             THEN lx.tokens[lx.position + 1] ELSE EOFToken,
     l |-> [lx EXCEPT !.position = @ + 1]]

(***************************************************************************)
(* parser/parser.go                                                        *)
(***************************************************************************)
LOWEST == 1
EQUALS == 2
LESSGREATER == 3
SUM == 4
PRODUCT == 5
PREFIX == 6
CALL == 7

\* var precedences = map[token.TokenType]int{...}
precedences ==
    [t \in {EQ, NOT_EQ, LT, GT, PLUS, MINUS, SLASH, ASTERISK, LPAREN} |->
        CASE t \in {EQ, NOT_EQ} -> EQUALS
          [] t \in {LT, GT} -> LESSGREATER
          [] t \in {PLUS, MINUS} -> SUM
          [] t \in {SLASH, ASTERISK} -> PRODUCT
          [] t = LPAREN -> CALL]

\* p.prefixParseFns as New registers them
prefixParseFns ==
    [t \in {IDENT, INT, BANG, MINUS, TRUE_, FALSE_, LPAREN, IF_, FUNCTION,
            STRING_} |->
        CASE t = IDENT -> "parseIdentifier"
          [] t = INT -> "parseIntegerLiteral"
          [] t \in {BANG, MINUS} -> "parsePrefixExpression"
          [] t \in {TRUE_, FALSE_} -> "parseBoolean"
          [] t = LPAREN -> "parseGroupedExpression"
          [] t = IF_ -> "parseIfExpression"
          [] t = FUNCTION -> "parseFunctionLiteral"
          [] t = STRING_ -> "parseStringLiteral"]

\* p.infixParseFns as New registers them
infixParseFns ==
    [t \in {PLUS, MINUS, SLASH, ASTERISK, EQ, NOT_EQ, LT, GT, LPAREN} |->
        IF t = LPAREN THEN "parseCallExpression" ELSE "parseInfixExpression"]

\* The nil interface value (ast.Expression(nil), ast.Statement(nil)).
Nil == [node |-> "nil"]

\* A nil *ast.LetStatement: once returned as an ast.Statement it is an
\* interface value that holds a type, so it does not compare equal to nil.
NilLetStatement == [node |-> "LetStatement", isNil |-> TRUE]

\* stmt != nil on an interface value
NotNilInterface(v) == v # Nil

\* a parse function's outcome: the parser after it and the value it returned
R(p, v) == [p |-> p, v |-> v]

\* a local variable: value := ...; the statements that follow.  The value is
\* computed before the statements that follow are, as in the code: TLC
\* would otherwise compute it where they first use it, deep inside them.
With(value, Body(_)) == IF value = value THEN Body(value) ELSE Body(value)

\* fmt's %s of a string given as characters
RECURSIVE Str(_)
Str(cs) == IF cs = <<>> THEN "" ELSE Head(cs) \o Str(Tail(cs))

\* nextToken asking the lexer twice and keeping the second token
nextTokenSkipping(p) ==
    LET n == NextToken(NextToken(p.l).l)
    IN [p EXCEPT !.curToken = p.peekToken, !.peekToken = n.tok, !.l = n.l]

\* func (p *Parser) nextToken()
nextToken(p) ==
    LET n == NextToken(p.l)
    IN [p EXCEPT !.curToken = p.peekToken, !.peekToken = n.tok, !.l = n.l]

curTokenIs(p, t) == p.curToken.Type = t

peekTokenIs(p, t) == p.peekToken.Type = t

\* func (p *Parser) peekError(t token.TokenType)
peekError(p, t) ==
    [p EXCEPT !.errors = Append(@,
        "expected next token to be " \o t \o ", got " \o p.peekToken.Type
            \o " instead")]

\* expectPeek that consumes the offending token on a mismatch too
expectPeekSkipping(p, t) ==
    IF peekTokenIs(p, t) THEN R(nextToken(p), TRUE)
    ELSE R(nextToken(peekError(p, t)), FALSE)

\* func (p *Parser) expectPeek(t token.TokenType) bool
expectPeek(p, t) ==
    IF peekTokenIs(p, t) THEN R(nextToken(p), TRUE)
    ELSE R(peekError(p, t), FALSE)

\* func (p *Parser) noPrefixParseFnError(t token.TokenType)
noPrefixParseFnError(p, t) ==
    [p EXCEPT !.errors = Append(@,
        "no prefix parse function for " \o t \o " found")]

\* func (p *Parser) peekPrecedence() int
peekPrecedence(p) ==
    IF p.peekToken.Type \in DOMAIN precedences
    THEN precedences[p.peekToken.Type] ELSE LOWEST

\* func (p *Parser) curPrecedence() int
curPrecedence(p) ==
    IF p.curToken.Type \in DOMAIN precedences
    THEN precedences[p.curToken.Type] ELSE LOWEST

\* Bookkeeping at the end of a loop iteration that began in `before`.
IterationDone(before, after) ==
    [after EXCEPT !.steps = @ + 1,
                  !.stalled = @ \/ after.l.position = before.l.position]

\* Bookkeeping at the entry of parseExpression.
Counted(p) == [p EXCEPT !.steps = @ + 1]

\* An iteration that consumed nothing repeats for ever: the run is followed
\* no further, as when the budget of steps is used up.
OutOfSteps(p) == p.stalled \/ p.steps >= MaxSteps

(***************************************************************************)
(* strconv.ParseInt(s, 0, 64) on the literals the lexer can produce (runs   *)
(* of decimal digits).  An int64 is kept as its decimal digits, least       *)
(* significant first and without leading zeros (<<>> is 0), so that values  *)
(* up to 2^63 - 1 are exact.                                                *)
(***************************************************************************)
Digits == <<"0", "1", "2", "3", "4", "5", "6", "7", "8", "9">>

DigitVal(c) == CHOOSE d \in 0..9 : Digits[d + 1] = c

IsDigit(c) == \E d \in 0..9 : Digits[d + 1] = c

\* n * m + c on digit sequences
RECURSIVE MulAdd(_, _, _)
MulAdd(n, m, c) ==
    IF n = <<>>
    THEN IF c = 0 THEN <<>> ELSE <<c % 10>> \o MulAdd(<<>>, m, c \div 10)
    ELSE LET x == Head(n) * m + c
         IN <<x % 10>> \o MulAdd(Tail(n), m, x \div 10)

\* the value of the digit run cs in the given base
RECURSIVE DigitsValue(_, _)
DigitsValue(cs, base) ==
    IF cs = <<>> THEN <<>>
    ELSE MulAdd(DigitsValue(SubSeq(cs, 1, Len(cs) - 1), base), base,
                DigitVal(cs[Len(cs)]))

\* math.MaxInt64 = 9223372036854775807
MaxInt64 == <<7, 0, 8, 5, 7, 7, 4, 5, 8, 6, 3, 0, 2, 7, 3, 3, 2, 2, 9>>

\* a <= b on digit sequences
RECURSIVE LessEq(_, _)
LessEq(a, b) ==
    IF Len(a) # Len(b) THEN Len(a) < Len(b)
    ELSE IF a = <<>> THEN TRUE
    ELSE IF a[Len(a)] # b[Len(b)] THEN a[Len(a)] < b[Len(b)]
    ELSE LessEq(SubSeq(a, 1, Len(a) - 1), SubSeq(b, 1, Len(b) - 1))

\* ParseInt reading every digit run in base 10
ParseIntDecimal(s) ==
    IF s = <<>> \/ \E i \in 1..Len(s) : ~IsDigit(s[i])
    THEN [ok |-> FALSE, value |-> <<>>]
    ELSE LET v == DigitsValue(s, 10)
         IN IF LessEq(v, MaxInt64) THEN [ok |-> TRUE, value |-> v]
            ELSE [ok |-> FALSE, value |-> <<>>]

\* strconv.ParseInt(s, 0, 64): base 0 takes the base from the prefix, and a
\* leading "0" not followed by b, o or x means octal
ParseInt(s) ==
    IF s = <<>> \/ \E i \in 1..Len(s) : ~IsDigit(s[i])
    THEN [ok |-> FALSE, value |-> <<>>]
    ELSE LET octal == s[1] = "0"
             base == IF octal THEN 8 ELSE 10
             ds == IF octal THEN Tail(s) ELSE s
         IN IF \E i \in 1..Len(ds) : DigitVal(ds[i]) >= base
            THEN [ok |-> FALSE, value |-> <<>>]
            ELSE LET v == DigitsValue(ds, base)
                 IN IF LessEq(v, MaxInt64) THEN [ok |-> TRUE, value |-> v]
                    ELSE [ok |-> FALSE, value |-> <<>>]

(***************************************************************************)
(* The parse functions.  Each takes the parser p and returns R(p', v): the  *)
(* parser it leaves and the node (or nil, or bool) it returns.              *)
(***************************************************************************)
RECURSIVE parseExpression(_, _)
RECURSIVE parseStatement(_)

\* func (p *Parser) parseIdentifier() ast.Expression
parseIdentifier(p) ==
    R(p, [node |-> "Identifier", Token |-> p.curToken,
          Value |-> p.curToken.Literal])

\* func (p *Parser) parseIntegerLiteral() ast.Expression
parseIntegerLiteral(p) ==
    With(ParseInt(p.curToken.Literal), LAMBDA n :
        IF ~n.ok
        THEN R([p EXCEPT !.errors = Append(@,
                  "could not parse \"" \o Str(p.curToken.Literal)
                      \o "\" as integer")], Nil)
        ELSE R(p, [node |-> "IntegerLiteral", Token |-> p.curToken,
                   Value |-> n.value]))

\* func (p *Parser) parsePrefixExpression() ast.Expression
parsePrefixExpression(p) ==
    With(parseExpression(nextToken(p), PREFIX), LAMBDA right :
        R(right.p, [node |-> "PrefixExpression", Token |-> p.curToken,
                    Operator |-> p.curToken.Literal, Right |-> right.v]))

\* parseInfixExpression parsing its right operand one level lower, which
\* makes equal-precedence operators nest to the right
parseInfixExpressionRightAssoc(p, left) ==
    With(parseExpression(nextToken(p), curPrecedence(p) - 1), LAMBDA right :
        R(right.p, [node |-> "InfixExpression", Token |-> p.curToken,
                    Left |-> left, Operator |-> p.curToken.Literal,
                    Right |-> right.v]))

\* func (p *Parser) parseInfixExpression(left ast.Expression) ast.Expression
parseInfixExpression(p, left) ==
    With(parseExpression(nextToken(p), curPrecedence(p)), LAMBDA right :
        R(right.p, [node |-> "InfixExpression", Token |-> p.curToken,
                    Left |-> left, Operator |-> p.curToken.Literal,
                    Right |-> right.v]))

\* func (p *Parser) parseBoolean() ast.Expression
parseBoolean(p) ==
    R(p, [node |-> "Boolean", Token |-> p.curToken,
          Value |-> curTokenIs(p, TRUE_)])

\* func (p *Parser) parseStringLiteral() ast.Expression
parseStringLiteral(p) ==
    R(p, [node |-> "StringLiteral", Token |-> p.curToken,
          Value |-> p.curToken.Literal])

\* func (p *Parser) parseGroupedExpression() ast.Expression
parseGroupedExpression(p) ==
    With(parseExpression(nextToken(p), LOWEST), LAMBDA exp :
    With(expectPeek(exp.p, RPAREN), LAMBDA e :
        IF ~e.v THEN R(e.p, Nil) ELSE R(e.p, exp.v)))

\* the for loop of parseBlockStatement (lines 418-424)
RECURSIVE parseBlockStatementLoop(_, _)
parseBlockStatementLoop(p, statements) ==
    IF OutOfSteps(p) THEN R(p, statements)
    ELSE IF ~curTokenIs(p, RBRACE) /\ ~curTokenIs(p, EOF)
    THEN With(parseStatement(p), LAMBDA stmt :
             parseBlockStatementLoop(
                 IterationDone(p, nextToken(stmt.p)),
                 IF NotNilInterface(stmt.v)
                 THEN Append(statements, stmt.v) ELSE statements))
    ELSE R(p, statements)

\* parseBlockStatement whose loop does not advance after a statement
RECURSIVE parseBlockStatementLoopNoAdvance(_, _)
parseBlockStatementLoopNoAdvance(p, statements) ==
    IF OutOfSteps(p) THEN R(p, statements)
    ELSE IF ~curTokenIs(p, RBRACE) /\ ~curTokenIs(p, EOF)
    THEN With(parseStatement(p), LAMBDA stmt :
             parseBlockStatementLoopNoAdvance(
                 IterationDone(p, stmt.p),
                 IF NotNilInterface(stmt.v)
                 THEN Append(statements, stmt.v) ELSE statements))
    ELSE R(p, statements)

parseBlockStatementNoAdvance(p) ==
    With(parseBlockStatementLoopNoAdvance(nextToken(p), <<>>), LAMBDA body :
        R(body.p, [node |-> "BlockStatement", Token |-> p.curToken,
                   Statements |-> body.v]))

\* func (p *Parser) parseBlockStatement() *ast.BlockStatement
parseBlockStatement(p) ==
    With(parseBlockStatementLoop(nextToken(p), <<>>), LAMBDA body :
        R(body.p, [node |-> "BlockStatement", Token |-> p.curToken,
                   Statements |-> body.v]))

\* func (p *Parser) parseIfExpression() ast.Expression
parseIfExpression(p) ==
    With(expectPeek(p, LPAREN), LAMBDA e1 :
    IF ~e1.v THEN R(e1.p, Nil) ELSE
    With(parseExpression(nextToken(e1.p), LOWEST), LAMBDA cond :
    With(expectPeek(cond.p, RPAREN), LAMBDA e2 :
    IF ~e2.v THEN R(e2.p, Nil) ELSE
    With(expectPeek(e2.p, LBRACE), LAMBDA e3 :
    IF ~e3.v THEN R(e3.p, Nil) ELSE
    With(parseBlockStatement(e3.p), LAMBDA cons :
    With([node |-> "IfExpression", Token |-> p.curToken,
          Condition |-> cond.v, Consequence |-> cons.v,
          Alternative |-> Nil], LAMBDA exp :
    IF ~peekTokenIs(cons.p, ELSE_) THEN R(cons.p, exp) ELSE
    With(expectPeek(nextToken(cons.p), LBRACE), LAMBDA e4 :
    IF ~e4.v THEN R(e4.p, Nil) ELSE
    With(parseBlockStatement(e4.p), LAMBDA alt :
        R(alt.p, [exp EXCEPT !.Alternative = alt.v])))))))))

\* &ast.Identifier{Token: p.curToken, Value: p.curToken.Literal}
IdentifierAtCur(p) ==
    [node |-> "Identifier", Token |-> p.curToken,
     Value |-> p.curToken.Literal]

\* the for loop of parseFunctionParameters (lines 464-469)
RECURSIVE parseFunctionParametersLoop(_, _)
parseFunctionParametersLoop(p, identifiers) ==
    IF OutOfSteps(p) THEN R(p, identifiers)
    ELSE IF peekTokenIs(p, COMMA)
    THEN With(nextToken(nextToken(p)), LAMBDA p2 :
             parseFunctionParametersLoop(
                 IterationDone(p, p2),
                 Append(identifiers, IdentifierAtCur(p2))))
    ELSE R(p, identifiers)

\* func (p *Parser) parseFunctionParameters() []*ast.Identifier
\* (a nil slice and an empty slice are both <<>>: no code tells them apart)
parseFunctionParameters(p) ==
    IF peekTokenIs(p, RPAREN) THEN R(nextToken(p), <<>>) ELSE
    With(nextToken(p), LAMBDA p1 :
    With(parseFunctionParametersLoop(p1, <<IdentifierAtCur(p1)>>), LAMBDA rest :
    With(expectPeek(rest.p, RPAREN), LAMBDA e :
        IF ~e.v THEN R(e.p, <<>>) ELSE R(e.p, rest.v))))

\* func (p *Parser) parseFunctionLiteral() ast.Expression
parseFunctionLiteral(p) ==
    With(expectPeek(p, LPAREN), LAMBDA e1 :
    IF ~e1.v THEN R(e1.p, Nil) ELSE
    With(parseFunctionParameters(e1.p), LAMBDA params :
    With(expectPeek(params.p, LBRACE), LAMBDA e2 :
    IF ~e2.v THEN R(e2.p, Nil) ELSE
    With(parseBlockStatement(e2.p), LAMBDA body :
        R(body.p, [node |-> "FunctionLiteral", Token |-> p.curToken,
                   Parameters |-> params.v, Body |-> body.v])))))

\* the for loop of parseExpressionList (lines 498-502)
RECURSIVE parseExpressionListLoop(_, _)
parseExpressionListLoop(p, args) ==
    IF OutOfSteps(p) THEN R(p, args)
    ELSE IF peekTokenIs(p, COMMA)
    THEN With(parseExpression(nextToken(nextToken(p)), LOWEST), LAMBDA arg :
             parseExpressionListLoop(
                 IterationDone(p, arg.p), Append(args, arg.v)))
    ELSE R(p, args)

\* func (p *Parser) parseExpressionList(end token.TokenType) []ast.Expression
parseExpressionList(p, end) ==
    IF peekTokenIs(p, end) THEN R(nextToken(p), <<>>) ELSE
    With(parseExpression(nextToken(p), LOWEST), LAMBDA first :
    With(parseExpressionListLoop(first.p, <<first.v>>), LAMBDA rest :
    With(expectPeek(rest.p, end), LAMBDA e :
        IF ~e.v THEN R(e.p, <<>>) ELSE R(e.p, rest.v))))

\* func (p *Parser) parseCallExpression(function ast.Expression) ast.Expression
parseCallExpression(p, function) ==
    With(parseExpressionList(p, RPAREN), LAMBDA args :
        R(args.p, [node |-> "CallExpression", Token |-> p.curToken,
                   Function |-> function, Arguments |-> args.v]))

\* prefix := p.prefixParseFns[p.curToken.Type]; prefix()
CallPrefix(p) ==
    CASE prefixParseFns[p.curToken.Type] = "parseIdentifier" ->
             parseIdentifier(p)
      [] prefixParseFns[p.curToken.Type] = "parseIntegerLiteral" ->
             parseIntegerLiteral(p)
      [] prefixParseFns[p.curToken.Type] = "parsePrefixExpression" ->
             parsePrefixExpression(p)
      [] prefixParseFns[p.curToken.Type] = "parseBoolean" -> parseBoolean(p)
      [] prefixParseFns[p.curToken.Type] = "parseGroupedExpression" ->
             parseGroupedExpression(p)
      [] prefixParseFns[p.curToken.Type] = "parseIfExpression" ->
             parseIfExpression(p)
      [] prefixParseFns[p.curToken.Type] = "parseFunctionLiteral" ->
             parseFunctionLiteral(p)
      [] prefixParseFns[p.curToken.Type] = "parseStringLiteral" ->
             parseStringLiteral(p)

\* infix := p.infixParseFns[p.peekToken.Type]; infix(leftExp), entered
\* after nextToken, so with the operator in curToken
CallInfix(p, left) ==
    IF infixParseFns[p.curToken.Type] = "parseCallExpression"
    THEN parseCallExpression(p, left)
    ELSE parseInfixExpression(p, left)

\* the for loop of parseExpression (lines 249-257)
RECURSIVE parseExpressionLoop(_, _, _)
parseExpressionLoop(p, leftExp, precedence) ==
    IF OutOfSteps(p) THEN R(p, leftExp)
    ELSE IF ~peekTokenIs(p, SEMICOLON) /\ precedence < peekPrecedence(p)
    THEN IF p.peekToken.Type \notin DOMAIN infixParseFns
         THEN R(p, leftExp)
         ELSE With(CallInfix(nextToken(p), leftExp), LAMBDA r :
                  parseExpressionLoop(IterationDone(p, r.p), r.v, precedence))
    ELSE R(p, leftExp)

\* parseExpression that returns nil for a token without a prefix parse
\* function and reports nothing
parseExpressionSilent(p, precedence) ==
    IF OutOfSteps(p) THEN R(p, Nil)
    ELSE IF p.curToken.Type \notin DOMAIN prefixParseFns
    THEN R(Counted(p), Nil)
    ELSE With(CallPrefix(Counted(p)), LAMBDA leftExp :
             parseExpressionLoop(leftExp.p, leftExp.v, precedence))

\* func (p *Parser) parseExpression(precedence int) ast.Expression
parseExpression(p, precedence) ==
    IF OutOfSteps(p) THEN R(p, Nil)
    ELSE IF p.curToken.Type \notin DOMAIN prefixParseFns
    THEN R(noPrefixParseFnError(Counted(p), p.curToken.Type), Nil)
    ELSE With(CallPrefix(Counted(p)), LAMBDA leftExp :
             parseExpressionLoop(leftExp.p, leftExp.v, precedence))

\* func (p *Parser) parseLetStatement() *ast.LetStatement
parseLetStatement(p) ==
    With(expectPeek(p, IDENT), LAMBDA e1 :
    IF ~e1.v THEN R(e1.p, NilLetStatement) ELSE
    With(IdentifierAtCur(e1.p), LAMBDA name :
    With(expectPeek(e1.p, ASSIGN), LAMBDA e2 :
    IF ~e2.v THEN R(e2.p, NilLetStatement) ELSE
    With(parseExpression(nextToken(e2.p), LOWEST), LAMBDA value :
        R(IF peekTokenIs(value.p, SEMICOLON)
          THEN nextToken(value.p) ELSE value.p,
          [node |-> "LetStatement", Token |-> p.curToken,
           Name |-> name, Value |-> value.v])))))

\* func (p *Parser) parseReturnStatement() *ast.ReturnStatement
parseReturnStatement(p) ==
    With(parseExpression(nextToken(p), LOWEST), LAMBDA value :
        R(IF peekTokenIs(value.p, SEMICOLON)
          THEN nextToken(value.p) ELSE value.p,
          [node |-> "ReturnStatement", Token |-> p.curToken,
           ReturnValue |-> value.v]))

\* func (p *Parser) parseExpressionStatement() *ast.ExpressionStatement
parseExpressionStatement(p) ==
    With(parseExpression(p, LOWEST), LAMBDA exp :
        R(IF peekTokenIs(exp.p, SEMICOLON)
          THEN nextToken(exp.p) ELSE exp.p,
          [node |-> "ExpressionStatement", Token |-> p.curToken,
           Expression |-> exp.v]))

\* func (p *Parser) parseStatement() ast.Statement
parseStatement(p) ==
    CASE p.curToken.Type = LET_ -> parseLetStatement(p)
      [] p.curToken.Type = RETURN -> parseReturnStatement(p)
      [] OTHER -> parseExpressionStatement(p)

\* func New(l *lexer.Lexer) *Parser
New(lx) ==
    nextToken(nextToken(
        [l |-> lx, errors |-> <<>>, curToken |-> Token("", <<>>),
         peekToken |-> Token("", <<>>), steps |-> 0, stalled |-> FALSE]))

\* the for loop of ParseProgram (lines 97-105), one iteration
ParseProgramIteration(p, statements) ==
    With(parseStatement(p), LAMBDA stmt :
        R(IterationDone(p, nextToken(stmt.p)),
          IF NotNilInterface(stmt.v) THEN Append(statements, stmt.v)
          ELSE statements))

\* func (p *Parser) ParseProgram() *ast.Program, run to its return
RECURSIVE ParseProgramLoop(_, _)
ParseProgramLoop(p, statements) ==
    IF OutOfSteps(p) \/ p.curToken.Type = EOF THEN R(p, statements)
    ELSE With(ParseProgramIteration(p, statements), LAMBDA it :
             ParseProgramLoop(it.p, it.v))

ParseProgram(p) == ParseProgramLoop(p, <<>>)

(***************************************************************************)
(* ast/ast.go: the String() methods.  The text is a sequence of             *)
(* characters.  A method call on a nil interface or through a nil pointer   *)
(* panics; the text then holds the pseudo-character Panic.  StringLiteral   *)
(* has no String method in ast.go as given: programs that hold one are not  *)
(* printed.                                                                 *)
(***************************************************************************)
Panic == <<"PANIC">>

RECURSIVE Concat(_)
Concat(ss) == IF ss = <<>> THEN <<>> ELSE Head(ss) \o Concat(Tail(ss))

\* strings.Join(parts, ", ")
RECURSIVE JoinComma(_)
JoinComma(parts) ==
    IF parts = <<>> THEN <<>>
    ELSE IF Len(parts) = 1 THEN parts[1]
    ELSE parts[1] \o <<",", " ">> \o JoinComma(Tail(parts))

RECURSIVE String(_)

\* func (i *Identifier) String() string
IdentifierString(n) == n.Value

\* func (il *IntegerLiteral) String() string
IntegerLiteralString(n) == n.Token.Literal

\* func (b *Boolean) String() string
BooleanString(n) == n.Token.Literal

\* func (pe *PrefixExpression) String() string
PrefixExpressionString(n) ==
    <<"(">> \o n.Operator \o String(n.Right) \o <<")">>

\* InfixExpression.String() without the parentheses
InfixExpressionStringBare(n) ==
    String(n.Left) \o <<" ">> \o n.Operator \o <<" ">> \o String(n.Right)

\* func (oe *InfixExpression) String() string
InfixExpressionString(n) ==
    <<"(">> \o String(n.Left) \o <<" ">> \o n.Operator \o <<" ">>
        \o String(n.Right) \o <<")">>

\* func (bs *BlockStatement) String() string
BlockStatementString(n) ==
    Concat([i \in 1..Len(n.Statements) |-> String(n.Statements[i])])

\* func (ie *IfExpression) String() string
IfExpressionString(n) ==
    <<"i", "f">> \o String(n.Condition) \o <<" ">> \o String(n.Consequence)
        \o (IF n.Alternative # Nil
            THEN <<"e", "l", "s", "e", " ">> \o String(n.Alternative)
            ELSE <<>>)

\* func (fl *FunctionLiteral) String() string
FunctionLiteralString(n) ==
    n.Token.Literal \o <<"(">>
        \o JoinComma([i \in 1..Len(n.Parameters) |-> String(n.Parameters[i])])
        \o <<")">> \o String(n.Body)

\* func (ce *CallExpression) String() string
CallExpressionString(n) ==
    String(n.Function) \o <<"(">>
        \o JoinComma([i \in 1..Len(n.Arguments) |-> String(n.Arguments[i])])
        \o <<")">>

\* func (ls *LetStatement) String() string
LetStatementString(n) ==
    n.Token.Literal \o <<" ">> \o String(n.Name) \o <<" ", "=", " ">>
        \o (IF n.Value # Nil THEN String(n.Value) ELSE <<>>) \o <<";">>

\* func (rs *ReturnStatement) String() string
ReturnStatementString(n) ==
    n.Token.Literal \o <<" ">>
        \o (IF n.ReturnValue # Nil THEN String(n.ReturnValue) ELSE <<>>)
        \o <<";">>

\* func (es *ExpressionStatement) String() string
ExpressionStatementString(n) ==
    IF n.Expression # Nil THEN String(n.Expression) ELSE <<>>

\* node.String(), dispatched on the node's dynamic type
String(n) ==
    CASE n = Nil \/ n = NilLetStatement -> Panic
      [] n.node = "Identifier" -> IdentifierString(n)
      [] n.node = "IntegerLiteral" -> IntegerLiteralString(n)
      [] n.node = "Boolean" -> BooleanString(n)
      [] n.node = "PrefixExpression" -> PrefixExpressionString(n)
      [] n.node = "InfixExpression" -> InfixExpressionString(n)
      [] n.node = "IfExpression" -> IfExpressionString(n)
      [] n.node = "FunctionLiteral" -> FunctionLiteralString(n)
      [] n.node = "CallExpression" -> CallExpressionString(n)
      [] n.node = "BlockStatement" -> BlockStatementString(n)
      [] n.node = "LetStatement" -> LetStatementString(n)
      [] n.node = "ReturnStatement" -> ReturnStatementString(n)
      [] n.node = "ExpressionStatement" -> ExpressionStatementString(n)

\* func (p *Program) String() string
ProgramString(statements) ==
    Concat([i \in 1..Len(statements) |-> String(statements[i])])

(***************************************************************************)
(* lexer/lexer.go, from its description: whitespace is skipped, `==` and    *)
(* `!=` are two-character tokens, a digit starts a maximal run of digits,   *)
(* a letter or `_` a maximal run of letters and `_`, `"` a string that ends *)
(* at the next `"`, and any other character is ILLEGAL.                     *)
(***************************************************************************)
Letters ==
    {"a", "b", "c", "d", "e", "f", "g", "h", "i", "j", "k", "l", "m", "n",
     "o", "p", "q", "r", "s", "t", "u", "v", "w", "x", "y", "z", "_",
     "A", "B", "C", "D", "E", "F", "G", "H", "I", "J", "K", "L", "M", "N",
     "O", "P", "Q", "R", "S", "T", "U", "V", "W", "X", "Y", "Z"}

Whitespace == {" ", "\t", "\n", "\r"}

Punctuation == {"+", "-", "*", "/", "<", ">", ",", ";", "(", ")", "{", "}"}

\* the length of the longest prefix of cs whose characters are all in class
RECURSIVE RunLength(_, _)
RunLength(cs, class) ==
    IF cs = <<>> \/ Head(cs) \notin class THEN 0
    ELSE 1 + RunLength(Tail(cs), class)

\* the number of characters before the first `"` of cs (all, if none)
RECURSIVE UntilQuote(_)
UntilQuote(cs) ==
    IF cs = <<>> \/ Head(cs) = "\"" THEN 0 ELSE 1 + UntilQuote(Tail(cs))

Drop(cs, n) == SubSeq(cs, n + 1, Len(cs))

\* the tokens NextToken delivers for the source text cs, up to the EOF
RECURSIVE Lex(_)
Lex(cs) ==
    IF cs = <<>> THEN <<>>
    ELSE LET c == Head(cs)
         IN CASE c \in Whitespace -> Lex(Tail(cs))
              [] c \in Punctuation -> <<Token(c, <<c>>)>> \o Lex(Tail(cs))
              [] c = "=" ->
                    IF Len(cs) > 1 /\ cs[2] = "="
                    THEN <<Token(EQ, <<"=", "=">>)>> \o Lex(Drop(cs, 2))
                    ELSE <<Token(ASSIGN, <<"=">>)>> \o Lex(Tail(cs))
              [] c = "!" ->
                    IF Len(cs) > 1 /\ cs[2] = "="
                    THEN <<Token(NOT_EQ, <<"!", "=">>)>> \o Lex(Drop(cs, 2))
                    ELSE <<Token(BANG, <<"!">>)>> \o Lex(Tail(cs))
              [] IsDigit(c) ->
                    LET n == RunLength(cs, {Digits[i] : i \in 1..10})
                    IN <<Token(INT, SubSeq(cs, 1, n))>> \o Lex(Drop(cs, n))
              [] c \in Letters ->
                    LET n == RunLength(cs, Letters)
                    IN <<Token(LookupIdent(SubSeq(cs, 1, n)), SubSeq(cs, 1, n))>>
                           \o Lex(Drop(cs, n))
              [] c = "\"" ->
                    LET n == UntilQuote(Tail(cs))
                    IN <<Token(STRING_, SubSeq(cs, 2, n + 1))>>
                           \o Lex(Drop(cs, n + 2))
              [] OTHER -> <<Token(ILLEGAL, <<c>>)>> \o Lex(Tail(cs))

(***************************************************************************)
(* Every node of an AST, each before the nodes below it.                   *)
(***************************************************************************)
RECURSIVE Flatten(_)
FlattenAll(ns) == Concat([i \in 1..Len(ns) |-> Flatten(ns[i])])

Flatten(n) ==
    <<n>> \o
    (CASE n = Nil \/ n = NilLetStatement -> <<>>
       [] n.node \in {"Identifier", "IntegerLiteral", "Boolean", "StringLiteral"} ->
             <<>>
       [] n.node = "PrefixExpression" -> Flatten(n.Right)
       [] n.node = "InfixExpression" -> Flatten(n.Left) \o Flatten(n.Right)
       [] n.node = "IfExpression" ->
             Flatten(n.Condition) \o Flatten(n.Consequence)
                 \o (IF n.Alternative # Nil THEN Flatten(n.Alternative) ELSE <<>>)
       [] n.node = "FunctionLiteral" ->
             FlattenAll(n.Parameters) \o Flatten(n.Body)
       [] n.node = "CallExpression" ->
             Flatten(n.Function) \o FlattenAll(n.Arguments)
       [] n.node = "BlockStatement" -> FlattenAll(n.Statements)
       [] n.node = "LetStatement" -> Flatten(n.Name) \o Flatten(n.Value)
       [] n.node = "ReturnStatement" -> Flatten(n.ReturnValue)
       [] n.node = "ExpressionStatement" -> Flatten(n.Expression))

HasNode(statements, kinds) ==
    LET ns == FlattenAll(statements)
    IN \E i \in 1..Len(ns) : ns[i].node \in kinds

(***************************************************************************)
(* Inputs: token streams, written as the words of a source text.            *)
(***************************************************************************)
Spelling(w) ==
    CASE w = "let" -> <<"l", "e", "t">>
      [] w = "fn" -> <<"f", "n">>
      [] w = "if" -> <<"i", "f">>
      [] w = "else" -> <<"e", "l", "s", "e">>
      [] w = "return" -> <<"r", "e", "t", "u", "r", "n">>
      [] w = "true" -> <<"t", "r", "u", "e">>
      [] w = "false" -> <<"f", "a", "l", "s", "e">>
      [] w = "add" -> <<"a", "d", "d">>
      [] w = "==" -> <<"=", "=">>
      [] w = "!=" -> <<"!", "=">>
      [] w = "10" -> <<"1", "0">>
      [] w = "08" -> <<"0", "8">>
      [] w = "010" -> <<"0", "1", "0">>
      [] OTHER -> <<w>>

\* the token the lexer makes of the word w ("$s" stands for the string
\* literal "s", "@" is a character the lexer does not know)
Tok(w) ==
    LET cs == Spelling(w)
    IN IF w = "$s" THEN Token(STRING_, <<"s">>)
       ELSE IF w = "@" THEN Token(ILLEGAL, cs)
       ELSE IF IsDigit(cs[1]) THEN Token(INT, cs)
       ELSE IF cs[1] \in Letters THEN Token(LookupIdent(cs), cs)
       ELSE Token(w, cs)

Toks(ws) == [i \in 1..Len(ws) |-> Tok(ws[i])]

\* every token kind but EOF, which only the end of the input produces
Words ==
    {"a", "b", "1", "08", "010", "$s", "@", "=", "+", "-", "!", "*", "/", "<",
     ">", "==", "!=", ",", ";", "(", ")", "{", "}", "fn", "let", "true",
     "false", "if", "else", "return"}

\* the words of the streams enumerated exhaustively
ShortWords ==
    {"a", "1", "=", "+", "-", ",", ";", "(", ")", "{", "}", "fn", "let", "if",
     "else", "return"}

ShortInputs ==
    UNION {[1..n -> {Tok(w) : w \in ShortWords}] : n \in 0..MaxLen}

Corpus ==
    {<<"a", "+", "b", "*", "a", "+", "b", "/", "a", "-", "b">>,
     <<"-", "a", "*", "b">>,
     <<"!", "-", "a">>,
     <<"1", "+", "1", ";", "-", "1", "*", "1">>,
     <<"1", ">", "1", "==", "1", "<", "1">>,
     <<"1", "+", "(", "1", "+", "1", ")", "+", "1">>,
     <<"!", "(", "true", "==", "true", ")">>,
     <<"a", "+", "add", "(", "b", "*", "a", ")", "+", "b">>,
     <<"add", "(", "a", ",", "b", ",", "1", "*", "1", ",", "add", "(", "1",
       ")", ")">>,
     <<"if", "(", "10", ">", "1", ")", "{", "if", "(", "10", ">", "1", ")",
       "{", "return", "10", ";", "}", "return", "1", ";", "}">>,
     <<"let", "a", "=", "1", ";", "let", "b", "=", "a", ">", "1", ";", "if",
       "(", "b", ")", "{", "10", "}", "else", "{", "1", "}", ";">>,
     <<"let", "a", "=", "fn", "(", "a", ")", "{", "fn", "(", "b", ")", "{",
       "a", "+", "b", "}", "}", ";", "a", "(", "1", ")", "(", "1", ")", ";">>,
     <<"fn", "(", "a", ",", "b", ")", "{", "a", "}">>,
     <<"fn", "(", ")", "{", "}">>,
     <<"fn", "(", ")", "{", "let", "a", "=", "1", ";", "return", "a", ";", "}">>,
     <<"let", "a", "=", "(", "1", "+", "a", ")", "*", "b", ";", "return", "a",
       ";", "-", "a", "(", "b", ")">>,
     <<"let", "a", "=", "$s", ";">>,
     <<"return", "010", ";">>}

\* a corpus program with one token replaced by any other
Substituted ==
    UNION {{[Toks(ws) EXCEPT ![i] = Tok(w)] : i \in 1..Len(ws), w \in Words} :
              ws \in Corpus}

\* a corpus program cut off after any number of tokens
Truncated ==
    UNION {{SubSeq(Toks(ws), 1, n) : n \in 0..Len(ws)} : ws \in Corpus}

Inputs == ShortInputs \cup Substituted \cup Truncated

(***************************************************************************)
(* The parser and its caller as a state machine: a lexer is built over the  *)
(* input, New builds the parser, ParseProgram runs one loop iteration at a  *)
(* time and returns; an error-free program is printed with String() and     *)
(* the text is lexed and parsed again.                                      *)
(***************************************************************************)
\* the Parser object held in the variables
Parser ==
    [l |-> l, curToken |-> curToken, peekToken |-> peekToken,
     errors |-> errors, steps |-> steps, stalled |-> stalled]

SetParser(p) ==
    /\ l' = p.l
    /\ curToken' = p.curToken
    /\ peekToken' = p.peekToken
    /\ errors' = p.errors
    /\ steps' = p.steps
    /\ stalled' = p.stalled

NoParse == [statements |-> <<>>, errors |-> <<>>]

NoChain == [operands |-> <<>>, ops |-> <<>>, wrap |-> "none"]

InitEnvs ==
    /\ envs = <<>>
    /\ refs = <<>>
    /\ obs = [op |-> "none"]

InitTok ==
    /\ ident = <<>>
    /\ tokType = ""

InitStdin ==
    /\ stdin = <<>>
    /\ scanned = 0
    /\ lex = NewLexer(<<>>)
    /\ out = <<>>
    /\ at = "idle"

InitOthers == InitEnvs /\ InitTok /\ InitStdin

InitParser(tokens) ==
    /\ l = NewLexer(tokens)
    /\ curToken = Token("", <<>>)
    /\ peekToken = Token("", <<>>)
    /\ errors = <<>>
    /\ steps = 0
    /\ stalled = FALSE
    /\ program = <<>>
    /\ pc = "new"
    /\ text = <<>>
    /\ again = NoParse

Init ==
    /\ \E tokens \in Inputs : InitParser(tokens)
    /\ chain = NoChain
    /\ InitOthers

\* p := parser.New(l)
NewParser ==
    /\ pc = "new"
    /\ SetParser(New(l))
    /\ pc' = "parse"
    /\ UNCHANGED <<program, text, again, chain, envVars, tokVars, replVars>>

\* one iteration of ParseProgram's loop
ParseProgramStep ==
    /\ pc = "parse"
    /\ curToken.Type # EOF
    /\ ~OutOfSteps(Parser)
    /\ LET it == ParseProgramIteration(Parser, program)
       IN SetParser(it.p) /\ program' = it.v
    /\ UNCHANGED <<pc, text, again, chain, envVars, tokVars, replVars>>

\* ParseProgram leaves its loop and returns the program
ParseProgramReturn ==
    /\ pc = "parse"
    /\ curToken.Type = EOF
    /\ pc' = "done"
    /\ UNCHANGED <<l, curToken, peekToken, errors, steps, stalled, program,
                   text, again, chain, envVars, tokVars, replVars>>

\* the caller found Errors() empty and prints the program
PrintProgram ==
    /\ pc = "done"
    /\ errors = <<>>
    /\ ~HasNode(program, {"StringLiteral"})
    /\ text' = ProgramString(program)
    /\ pc' = "printed"
    /\ UNCHANGED <<l, curToken, peekToken, errors, steps, stalled, program,
                   again, chain, envVars, tokVars, replVars>>

\* the printed text is lexed and parsed by a fresh parser
Reparse ==
    /\ pc = "printed"
    /\ LET r == ParseProgram(New(NewLexer(Lex(text))))
       IN again' = [statements |-> r.v, errors |-> r.p.errors]
    /\ pc' = "reparsed"
    /\ UNCHANGED <<l, curToken, peekToken, errors, steps, stalled, program,
                   text, chain, envVars, tokVars, replVars>>

Next ==
    \/ NewParser
    \/ ParseProgramStep
    \/ ParseProgramReturn
    \/ PrintProgram
    \/ Reparse

Spec == Init /\ [][Next]_vars

(***************************************************************************)
(* Operator chains: x0 op1 x1 ... opk xk, with the grouping the precedence *)
(* table prescribes worked out on the chain itself.  An AST with its Token *)
(* fields removed is what two parses are compared by.                      *)
(***************************************************************************)
\* most binary operators in an enumerated chain
MaxOps == 2

RECURSIVE Strip(_)
Strip(n) ==
    CASE n = Nil \/ n = NilLetStatement -> n
      [] n.node = "Identifier" -> [node |-> n.node, Ident |-> n.Value]
      [] n.node = "IntegerLiteral" -> [node |-> n.node, Int |-> n.Value]
      [] n.node = "Boolean" -> [node |-> n.node, Bool |-> n.Value]
      [] n.node = "StringLiteral" -> [node |-> n.node, Str |-> n.Value]
      [] n.node = "PrefixExpression" ->
            [node |-> n.node, Operator |-> n.Operator, Right |-> Strip(n.Right)]
      [] n.node = "InfixExpression" ->
            [node |-> n.node, Left |-> Strip(n.Left), Operator |-> n.Operator,
             Right |-> Strip(n.Right)]
      [] n.node = "IfExpression" ->
            [node |-> n.node, Condition |-> Strip(n.Condition),
             Consequence |-> Strip(n.Consequence),
             Alternative |-> Strip(n.Alternative)]
      [] n.node = "FunctionLiteral" ->
            [node |-> n.node,
             Parameters |-> [i \in 1..Len(n.Parameters) |-> Strip(n.Parameters[i])],
             Body |-> Strip(n.Body)]
      [] n.node = "CallExpression" ->
            [node |-> n.node, Function |-> Strip(n.Function),
             Arguments |-> [i \in 1..Len(n.Arguments) |-> Strip(n.Arguments[i])]]
      [] n.node = "BlockStatement" ->
            [node |-> n.node,
             Statements |-> [i \in 1..Len(n.Statements) |-> Strip(n.Statements[i])]]
      [] n.node = "LetStatement" ->
            [node |-> n.node, Name |-> Strip(n.Name), Value |-> Strip(n.Value)]
      [] n.node = "ReturnStatement" ->
            [node |-> n.node, ReturnValue |-> Strip(n.ReturnValue)]
      [] n.node = "ExpressionStatement" ->
            [node |-> n.node, Expression |-> Strip(n.Expression)]

StripAll(statements) == [i \in 1..Len(statements) |-> Strip(statements[i])]

Id(w) == [node |-> "Identifier", Ident |-> Spelling(w)]
One == [node |-> "IntegerLiteral", Int |-> <<1>>]
True == [node |-> "Boolean", Bool |-> TRUE]
Pre(op, r) == [node |-> "PrefixExpression", Operator |-> Spelling(op), Right |-> r]
In(x, op, y) ==
    [node |-> "InfixExpression", Left |-> x, Operator |-> Spelling(op), Right |-> y]
Call(f, args) == [node |-> "CallExpression", Function |-> f, Arguments |-> args]

\* the binary operators, lowest level first
Level(op) ==
    CASE op \in {"==", "!="} -> 1
      [] op \in {"<", ">"} -> 2
      [] op \in {"+", "-"} -> 3
      [] op \in {"*", "/"} -> 4

BinaryOps == {"==", "!=", "<", ">", "+", "-", "*", "/"}

\* operands that are more than one identifier, with the tree each denotes
ComplexOperands ==
    {[words |-> <<"1">>, tree |-> One],
     [words |-> <<"true">>, tree |-> True],
     [words |-> <<"-", "a">>, tree |-> Pre("-", Id("a"))],
     [words |-> <<"!", "-", "a">>, tree |-> Pre("!", Pre("-", Id("a")))],
     [words |-> <<"(", "a", "+", "b", ")">>, tree |-> In(Id("a"), "+", Id("b"))],
     [words |-> <<"add", "(", "a", ",", "b", "*", "1", ")">>,
      tree |-> Call(Id("add"), <<Id("a"), In(Id("b"), "*", One)>>)],
     [words |-> <<"-", "a", "(", "b", ")">>,
      tree |-> Pre("-", Call(Id("a"), <<Id("b")>>))],
     [words |-> <<"(", "a", "-", "b", ")", "(", ")">>,
      tree |-> Call(In(Id("a"), "-", Id("b")), <<>>)]}

Names == <<"a", "b", "c", "d", "e", "f">>

SimpleOperand(i) ==
    LET w == Names[((i - 1) % Len(Names)) + 1]
    IN [words |-> <<w>>, tree |-> Id(w)]

SimpleOperands(k) == [i \in 1..(k + 1) |-> SimpleOperand(i)]

\* k+1 operands of which exactly one is complex
ComplexOperandLists(k) ==
    {[SimpleOperands(k) EXCEPT ![j] = c] :
        j \in 1..(k + 1), c \in ComplexOperands}

Wraps == {"expression", "let", "return"}

\* chains of identifiers in every statement form, chains with a complex
\* operand as expression statements
Chains ==
    UNION {{[operands |-> SimpleOperands(k), ops |-> os, wrap |-> w] :
               os \in [1..k -> BinaryOps], w \in Wraps}
           \cup {[operands |-> xs, ops |-> os, wrap |-> "expression"] :
                    xs \in ComplexOperandLists(k), os \in [1..k -> BinaryOps]} :
              k \in 0..MaxOps}

\* the words of the chain
RECURSIVE ChainWords(_, _)
ChainWords(operands, ops) ==
    IF ops = <<>> THEN operands[1].words
    ELSE operands[1].words \o <<ops[1]>> \o ChainWords(Tail(operands), Tail(ops))

\* the source of a chain: the expression alone, or as the value of a let or
\* return statement that follows another let statement
SourceWords(c) ==
    CASE c.wrap = "expression" -> ChainWords(c.operands, c.ops)
      [] c.wrap = "let" ->
            <<"let", "x", "=">> \o ChainWords(c.operands, c.ops) \o <<";">>
      [] c.wrap = "return" ->
            <<"let", "y", "=", "1", ";", "return">>
                \o ChainWords(c.operands, c.ops) \o <<";">>

\* the operator a chain splits at: the last one of the lowest level, so that
\* what is left of it groups first
RootIndex(ops) ==
    CHOOSE r \in 1..Len(ops) :
        /\ \A i \in 1..Len(ops) : Level(ops[r]) <= Level(ops[i])
        /\ \A i \in (r + 1)..Len(ops) : Level(ops[r]) < Level(ops[i])

RECURSIVE Grouping(_, _)
Grouping(operands, ops) ==
    IF ops = <<>> THEN operands[1].tree
    ELSE LET r == RootIndex(ops)
         IN In(Grouping(SubSeq(operands, 1, r), SubSeq(ops, 1, r - 1)),
               ops[r],
               Grouping(SubSeq(operands, r + 1, Len(operands)),
                        SubSeq(ops, r + 1, Len(ops))))

\* the fully parenthesized text of a tree: every prefix and infix
\* application in parentheses, arguments separated by ", "
RECURSIVE Parenthesized(_)
Parenthesized(t) ==
    CASE t.node = "Identifier" -> t.Ident
      [] t.node = "IntegerLiteral" -> <<"1">>
      [] t.node = "Boolean" -> <<"t", "r", "u", "e">>
      [] t.node = "PrefixExpression" ->
            <<"(">> \o t.Operator \o Parenthesized(t.Right) \o <<")">>
      [] t.node = "InfixExpression" ->
            <<"(">> \o Parenthesized(t.Left) \o <<" ">> \o t.Operator \o <<" ">>
                \o Parenthesized(t.Right) \o <<")">>
      [] t.node = "CallExpression" ->
            Parenthesized(t.Function) \o <<"(">>
                \o JoinComma([i \in 1..Len(t.Arguments) |->
                                 Parenthesized(t.Arguments[i])])
                \o <<")">>

InitExpr ==
    /\ \E c \in Chains : InitParser(Toks(SourceWords(c))) /\ chain = c
    /\ InitOthers

SpecExpr == InitExpr /\ [][Next]_vars

(***************************************************************************)
(* Properties of the parser.                                               *)
(***************************************************************************)
Returned == pc \in {"done", "printed", "reparsed"}

Nodes == FlattenAll(program)

\* C1: whatever the tokens are, ParseProgram returns after finitely many
\* nextToken calls: no loop iteration ends without having consumed a token,
\* the work done stays within the budget, the lexer is asked for at most
\* 2n + 2 tokens for an input of n tokens, and every iteration of
\* ParseProgram's own loop reads at least one token.
C1_ParseProgramTerminates ==
    /\ [](/\ ~stalled
          /\ steps < MaxSteps
          /\ l.position <= 2 * Len(l.tokens) + 2)
    /\ [][pc = "parse" /\ pc' = "parse" => l'.position > l.position]_vars

\* ParseProgram has returned on an input that ends inside an open block,
\* having read past the end of the input.
C1_Witness ==
    /\ pc = "done"
    /\ Len(l.tokens) > 0
    /\ l.tokens[Len(l.tokens)].Type = LBRACE
    /\ l.position > Len(l.tokens) + 2

\* C4: after an error-free parse every let statement, at any depth, has a
\* name and a value, and every return statement has a return value.
C4_LetAndReturnValuesNonNull ==
    (Returned /\ errors = <<>>) =>
        \A i \in 1..Len(Nodes) :
            LET n == Nodes[i]
            IN /\ n.node = "LetStatement" =>
                    n # NilLetStatement /\ n.Name # Nil /\ n.Value # Nil
               /\ n.node = "ReturnStatement" => n.ReturnValue # Nil

\* An error-free program whose only statement is an expression with a let
\* and a return statement inside a block.
C4_Witness ==
    /\ pc = "done"
    /\ errors = <<>>
    /\ Len(program) = 1
    /\ program[1].node = "ExpressionStatement"
    /\ HasNode(program, {"LetStatement"})
    /\ HasNode(program, {"ReturnStatement"})

\* C8: expectPeek(t) on a peekToken of kind t returns true, moves the cursor
\* by one token and reports nothing; on any other peekToken it returns
\* false, appends the one message and leaves cursor and lexer alone.
C8_ExpectPeek ==
    pc # "new" =>
        \A t \in TokenTypes :
            LET r == expectPeek(Parser, t)
            IN IF peekToken.Type = t
               THEN /\ r.v = TRUE
                    /\ r.p.errors = errors
                    /\ r.p.curToken = peekToken
                    /\ r.p.peekToken = NextToken(l).tok
                    /\ r.p.l.position = l.position + 1
               ELSE /\ r.v = FALSE
                    /\ r.p.errors = Append(errors,
                          "expected next token to be " \o t \o ", got "
                              \o peekToken.Type \o " instead")
                    /\ r.p.curToken = curToken
                    /\ r.p.peekToken = peekToken
                    /\ r.p.l = l

\* A let statement whose name was accepted by expectPeek(IDENT) and whose
\* `=` was found missing by expectPeek(ASSIGN).
C8_Witness ==
    /\ pc = "done"
    /\ errors = <<"expected next token to be =, got INT instead">>
    /\ l.tokens[1].Type = LET_

\* C9: in an error-free program every parameter of every function literal
\* is an IDENT token.
C9_ParametersAreIdentifiers ==
    (Returned /\ errors = <<>>) =>
        \A i \in 1..Len(Nodes) :
            Nodes[i].node = "FunctionLiteral" =>
                \A j \in 1..Len(Nodes[i].Parameters) :
                    Nodes[i].Parameters[j].Token.Type = IDENT

\* the expression a chain was written as, in the statement that holds it
ChainExpression ==
    CASE chain.wrap = "expression" -> program[1].Expression
      [] chain.wrap = "let" -> program[1].Value
      [] chain.wrap = "return" -> program[2].ReturnValue

\* the text of a chain's program around its fully parenthesized expression
ChainText(inner) ==
    CASE chain.wrap = "expression" -> inner
      [] chain.wrap = "let" ->
            Spelling("let") \o <<" ", "x", " ", "=", " ">> \o inner \o <<";">>
      [] chain.wrap = "return" ->
            Spelling("let") \o <<" ", "y", " ", "=", " ", "1", ";">>
                \o Spelling("return") \o <<" ">> \o inner \o <<";">>

\* C2: an operator chain parses without errors into the grouping the
\* precedence levels prescribe (higher level binds tighter, equal levels
\* nest to the left), and the program prints as the fully parenthesized
\* text of that grouping.
C2_PrecedenceGrouping ==
    Returned =>
        /\ errors = <<>>
        /\ Len(program) = (IF chain.wrap = "return" THEN 2 ELSE 1)
        /\ Strip(ChainExpression) = Grouping(chain.operands, chain.ops)
        /\ pc \in {"printed", "reparsed"} =>
              text = ChainText(Parenthesized(Grouping(chain.operands, chain.ops)))

\* a + b - c was parsed and printed as ((a + b) - c).
C2_Witness ==
    /\ pc = "printed"
    /\ chain = [operands |-> SimpleOperands(2), ops |-> <<"+", "-">>,
                wrap |-> "expression"]
    /\ Str(text) = "((a + b) - c)"

\* C3 as stated: the text printed for an error-free program parses again
\* without errors into an equivalent AST.
C3_PrintedTextParsesBack ==
    pc = "reparsed" =>
        /\ again.errors = <<>>
        /\ StripAll(again.statements) = StripAll(program)

\* programs whose text keeps its statement boundaries: no if expression,
\* function literal, block or string literal, and every statement but the
\* last a let or return statement
KeepsBoundaries(statements) ==
    /\ ~HasNode(statements, {"IfExpression", "FunctionLiteral",
                             "BlockStatement", "StringLiteral"})
    /\ \A i \in 1..(Len(statements) - 1) :
          statements[i].node \in {"LetStatement", "ReturnStatement"}

\* C3 amended: the text printed for an error-free program without if
\* expressions, function literals and string literals, in which only the
\* last statement may be an expression statement, parses again without
\* errors into an equivalent AST.
C3_BoundaryKeepingTextParsesBack ==
    (pc = "reparsed" /\ KeepsBoundaries(program)) =>
        /\ again.errors = <<>>
        /\ StripAll(again.statements) = StripAll(program)

\* A let, a return and an expression statement with infix, prefix and call
\* expressions were printed and parsed again.
C3_Witness ==
    /\ pc = "reparsed"
    /\ KeepsBoundaries(program)
    /\ Len(program) = 3
    /\ HasNode(program, {"InfixExpression"})
    /\ HasNode(program, {"PrefixExpression"})
    /\ HasNode(program, {"CallExpression"})
    /\ Len(again.statements) = 3

(***************************************************************************)
(* object/environment.go.  The heap is a sequence of Environment objects;  *)
(* a *Environment is an index into it, 0 the nil pointer.  A store is a    *)
(* function from the names it binds.                                       *)
(***************************************************************************)
\* most Environment objects the program makes
MaxEnvs == 3

\* most bindings the program's environments hold together
MaxBindings == 2

EnvNames == {"x", "y"}

EnvValues == {"one", "two"}

NilObject == "nil"

EmptyStore == [n \in {} |-> NilObject]

\* func NewEnvironment() *Environment: the heap and the pointer returned
NewEnvironment(heap) ==
    [heap |-> Append(heap, [store |-> EmptyStore, outer |-> 0]),
     env |-> Len(heap) + 1]

\* NewEnclosedEnvironment that encloses a copy of outer as it is now
NewEnclosedEnvironmentCopying(heap, outer) ==
    LET copy == Append(heap, heap[outer])
        made == NewEnvironment(copy)
    IN [heap |-> [made.heap EXCEPT ![made.env].outer = Len(copy)],
        env |-> made.env]

\* func NewEnclosedEnvironment(outer *Environment) *Environment
NewEnclosedEnvironment(heap, outer) ==
    LET made == NewEnvironment(heap)
    IN [heap |-> [made.heap EXCEPT ![made.env].outer = outer],
        env |-> made.env]

\* Get that looks in the outer environments first
RECURSIVE GetOuterFirst(_, _, _)
GetOuterFirst(heap, e, name) ==
    LET up == IF heap[e].outer # 0 THEN GetOuterFirst(heap, heap[e].outer, name)
              ELSE [obj |-> NilObject, ok |-> FALSE]
    IN IF up.ok THEN up
       ELSE IF name \in DOMAIN heap[e].store
       THEN [obj |-> heap[e].store[name], ok |-> TRUE]
       ELSE [obj |-> NilObject, ok |-> FALSE]

\* func (e *Environment) Get(name string) (Object, bool)
RECURSIVE Get(_, _, _)
Get(heap, e, name) ==
    LET ok == name \in DOMAIN heap[e].store
        obj == IF ok THEN heap[e].store[name] ELSE NilObject
    IN IF ~ok /\ heap[e].outer # 0 THEN Get(heap, heap[e].outer, name)
       ELSE [obj |-> obj, ok |-> ok]

\* store[name] = val on a map
Bind(store, name, val) ==
    [n \in DOMAIN store \cup {name} |-> IF n = name THEN val ELSE store[n]]

\* Set that assigns to the nearest environment that already binds the name
RECURSIVE SetAssigning(_, _, _, _)
SetAssigning(heap, e, name, val) ==
    IF name \notin DOMAIN heap[e].store /\ heap[e].outer # 0
       /\ Get(heap, heap[e].outer, name).ok
    THEN SetAssigning(heap, heap[e].outer, name, val)
    ELSE [heap |-> [heap EXCEPT ![e].store = Bind(@, name, val)], obj |-> val]

\* func (e *Environment) Set(name string, val Object) Object: the heap after
\* it and the object returned
Set(heap, e, name, val) ==
    [heap |-> [heap EXCEPT ![e].store = Bind(@, name, val)], obj |-> val]

\* the environments the program holds a pointer to
Held == DOMAIN refs

RECURSIVE Bindings(_)
Bindings(held) ==
    IF held = {} THEN 0
    ELSE LET e == CHOOSE h \in held : TRUE
         IN Cardinality(DOMAIN refs[e].bound) + Bindings(held \ {e})

Hold(e, outer) ==
    [h \in Held \cup {e} |->
        IF h = e THEN [bound |-> EmptyStore, outer |-> outer] ELSE refs[h]]

\* env := object.NewEnvironment()
DoNewEnvironment ==
    /\ Cardinality(Held) < MaxEnvs
    /\ LET made == NewEnvironment(envs)
       IN /\ envs' = made.heap
          /\ refs' = Hold(made.env, 0)
          /\ obs' = [op |-> "NewEnvironment", env |-> made.env]
    /\ UNCHANGED <<parserVars, tokVars, replVars>>

\* env := object.NewEnclosedEnvironment(outer)
DoNewEnclosedEnvironment ==
    /\ Cardinality(Held) < MaxEnvs
    /\ \E outer \in Held :
          LET made == NewEnclosedEnvironment(envs, outer)
          IN /\ envs' = made.heap
             /\ refs' = Hold(made.env, outer)
             /\ obs' = [op |-> "NewEnclosedEnvironment", env |-> made.env,
                        outer |-> outer]
    /\ UNCHANGED <<parserVars, tokVars, replVars>>

\* env.Set(name, val)
DoSet ==
    /\ \E e \in Held, name \in EnvNames, val \in EnvValues :
          LET done == Set(envs, e, name, val)
          IN /\ name \in DOMAIN refs[e].bound \/ Bindings(Held) < MaxBindings
             /\ envs' = done.heap
             /\ refs' = [refs EXCEPT ![e].bound = Bind(@, name, val)]
             /\ obs' = [op |-> "Set", env |-> e, name |-> name, val |-> val,
                        obj |-> done.obj]
    /\ UNCHANGED <<parserVars, tokVars, replVars>>

\* obj, ok := env.Get(name)
DoGet ==
    /\ \E e \in Held, name \in EnvNames :
          LET got == Get(envs, e, name)
          IN obs' = [op |-> "Get", env |-> e, name |-> name, obj |-> got.obj,
                     ok |-> got.ok]
    /\ UNCHANGED <<envs, refs, parserVars, tokVars, replVars>>

InitEnv ==
    /\ InitParser(<<>>)
    /\ chain = NoChain
    /\ InitEnvs
    /\ InitTok
    /\ InitStdin

NextEnv ==
    \/ DoNewEnvironment
    \/ DoNewEnclosedEnvironment
    \/ DoSet
    \/ DoGet

SpecEnv == InitEnv /\ [][NextEnv]_vars

(***************************************************************************)
(* Properties of the environments.  refs holds, for every environment the  *)
(* program was handed, the value last Set through it for each name and the  *)
(* outer environment it was made with.                                      *)
(***************************************************************************)
\* e, e.outer, e.outer.outer, ... as the program made them
RECURSIVE ChainOf(_)
ChainOf(e) == IF e = 0 THEN <<>> ELSE <<e>> \o ChainOf(refs[e].outer)

\* what a lookup of name from e is to give: the value last Set in the
\* innermost frame of the chain that binds name
Innermost(e, name) ==
    LET frames == ChainOf(e)
        binders == {i \in 1..Len(frames) : name \in DOMAIN refs[frames[i]].bound}
    IN IF binders = {} THEN [obj |-> NilObject, ok |-> FALSE]
       ELSE LET i == CHOOSE b \in binders : \A c \in binders : b <= c
            IN [obj |-> refs[frames[i]].bound[name], ok |-> TRUE]

\* C5: Get(name) on e returns the value most recently Set for name in the
\* innermost frame of e's chain that binds name, and found = false exactly
\* when no frame of the chain binds it.
C5_GetFindsInnermostBinding ==
    /\ \A e \in Held, name \in EnvNames :
          Get(envs, e, name) = Innermost(e, name)
    /\ obs.op = "Get" =>
          [obj |-> obs.obj, ok |-> obs.ok] = Innermost(obs.env, obs.name)

\* Get returned the value of a name that the environment's outer binds to
\* another value.
C5_Witness ==
    /\ obs.op = "Get"
    /\ obs.ok
    /\ refs[obs.env].outer # 0
    /\ obs.name \in DOMAIN refs[obs.env].bound
    /\ obs.name \in DOMAIN refs[refs[obs.env].outer].bound
    /\ refs[refs[obs.env].outer].bound[obs.name] # obs.obj

\* C6: a Set on e makes no new environment, binds the name in e's own store
\* and leaves every other environment as it was, so that every lookup made
\* directly on a frame of e's outer chain gives what it gave before.
C6_SetChangesOnlyItsOwnFrame ==
    [][obs'.op = "Set" =>
          LET e == obs'.env
          IN /\ Len(envs') = Len(envs)
             /\ \A f \in 1..Len(envs) : f # e => envs'[f] = envs[f]
             /\ envs'[e].outer = envs[e].outer
             /\ envs'[e].store = Bind(envs[e].store, obs'.name, obs'.val)
             /\ \A i \in 2..Len(ChainOf(e)), name \in EnvNames :
                   Get(envs', ChainOf(e)[i], name) = Get(envs, ChainOf(e)[i], name)
    ]_vars

\* A name bound in the outer environment was Set to another value in the
\* enclosed one.
C6_Witness ==
    /\ obs.op = "Set"
    /\ refs[obs.env].outer # 0
    /\ Get(envs, refs[obs.env].outer, obs.name).ok
    /\ Get(envs, refs[obs.env].outer, obs.name).obj # obs.val
    /\ Get(envs, obs.env, obs.name).obj = obs.val

\* C7: an environment that does not bind a name itself gives for it what
\* its outer gives now, a Set on the outer is seen at once by every
\* environment enclosed by it, and environments made with the same outer
\* hold the same outer object.
C7_OuterHeldByReference ==
    /\ \A e \in Held, name \in EnvNames :
          (refs[e].outer # 0 /\ name \notin DOMAIN envs[e].store) =>
              Get(envs, e, name) = Get(envs, refs[e].outer, name)
    /\ obs.op = "Set" =>
          \A e \in Held :
              (refs[e].outer = obs.env /\ obs.name \notin DOMAIN envs[e].store) =>
                  Get(envs, e, obs.name) = [obj |-> obs.val, ok |-> TRUE]
    /\ \A e1 \in Held, e2 \in Held :
          (refs[e1].outer # 0 /\ refs[e1].outer = refs[e2].outer) =>
              /\ envs[e1].outer = envs[e2].outer
              /\ \A name \in EnvNames :
                    Get(envs, envs[e1].outer, name) = Get(envs, envs[e2].outer, name)

\* A Set on an environment that two others enclose, neither binding the
\* name, both made before the Set.
C7_Witness ==
    /\ obs.op = "Set"
    /\ \E e1 \in Held, e2 \in Held :
          /\ e1 # e2
          /\ refs[e1].outer = obs.env
          /\ refs[e2].outer = obs.env
          /\ obs.name \notin DOMAIN envs[e1].store
          /\ obs.name \notin DOMAIN envs[e2].store
          /\ Get(envs, e1, obs.name).obj = obs.val
          /\ Get(envs, e2, obs.name).obj = obs.val

(***************************************************************************)
(* token.LookupIdent applied to the spellings an identifier can have.      *)
(***************************************************************************)
\* longest spelling enumerated letter by letter
MaxIdentLen == 3

IdentChars == {"f", "n", "i", "l", "e", "t", "F", "N"}

Upper(c) ==
    CASE c = "f" -> "F" [] c = "n" -> "N" [] c = "l" -> "L" [] c = "e" -> "E"
      [] c = "t" -> "T" [] c = "i" -> "I" [] c = "r" -> "R" [] c = "u" -> "U"
      [] c = "a" -> "A" [] c = "s" -> "S" [] OTHER -> c

\* the keywords, each also with one letter in upper case, all in upper case,
\* cut short and with a further letter
AroundKeywords ==
    UNION {{k, [i \in 1..Len(k) |-> Upper(k[i])]}
           \cup {[k EXCEPT ![i] = Upper(@)] : i \in 1..Len(k)}
           \cup {SubSeq(k, 1, n) : n \in 1..(Len(k) - 1)}
           \cup {k \o <<c>> : c \in {"s", "x", "_", "1"}} :
              k \in DOMAIN keywords}

Idents ==
    UNION {[1..n -> IdentChars] : n \in 1..MaxIdentLen} \cup AroundKeywords

\* tok.Type = token.LookupIdent(tok.Literal)
DoLookupIdent ==
    /\ tokType = ""
    /\ tokType' = LookupIdent(ident)
    /\ UNCHANGED <<ident, parserVars, envVars, replVars>>

InitLookup ==
    /\ InitParser(<<>>)
    /\ chain = NoChain
    /\ InitEnvs
    /\ InitStdin
    /\ ident \in Idents
    /\ tokType = ""

SpecTok == InitLookup /\ [][DoLookupIdent]_vars

\* C10: the seven keyword spellings give their keyword kinds and every
\* other spelling gives IDENT.
C10_LookupIdent ==
    tokType # "" =>
        tokType = CASE Str(ident) = "fn" -> FUNCTION
                    [] Str(ident) = "let" -> LET_
                    [] Str(ident) = "true" -> TRUE_
                    [] Str(ident) = "false" -> FALSE_
                    [] Str(ident) = "if" -> IF_
                    [] Str(ident) = "else" -> ELSE_
                    [] Str(ident) = "return" -> RETURN
                    [] OTHER -> IDENT

\* A spelling that is a keyword but for the case of one letter was looked up.
C10_Witness ==
    /\ Str(ident) = "Let"
    /\ tokType = IDENT

(***************************************************************************)
(* repl/repl.go: Start.  The scanner delivers the lines of the input one   *)
(* per Scan and then reports the end of the input; each Printf is one      *)
(* entry of out.                                                           *)
(***************************************************************************)
\* most lines of an input
MaxLines == 2
\* most tokens on a line
MaxLineLen == 2

\* const PROMPT = ">> "
PROMPT == ">> "

\* fmt.Printf("%+v\n", tok)
FormatToken(tok) ==
    "{Type:" \o tok.Type \o " Literal:" \o Str(tok.Literal) \o "}\n"

\* one turn of `for tok := l.NextToken(); tok.Type != token.EOF;
\* tok = l.NextToken()`: the lexer and the output after it, and whether the
\* loop goes on
TokenLoopStep(lx, printed) ==
    [l |-> NextToken(lx).l,
     out |-> IF NextToken(lx).tok.Type # EOF
             THEN Append(printed, FormatToken(NextToken(lx).tok))
             ELSE printed,
     more |-> NextToken(lx).tok.Type # EOF]

\* bufio.NewScanner(in): the scanner's buffer grows to bufio.MaxScanTokenSize
\* bytes and no further
MaxScanTokenSize == 65536

LineWords == {"let", "a"}

\* a line of the input: its words, one space between two of them, and the
\* blanks that follow the last one
Lines ==
    [words : UNION {[1..n -> LineWords] : n \in 0..MaxLineLen},
     blanks : {0, MaxScanTokenSize}]

RECURSIVE WordBytes(_)
WordBytes(ws) ==
    IF ws = <<>> THEN 0 ELSE Len(Spelling(ws[1])) + WordBytes(Tail(ws))

\* the bytes of a line before its newline
Bytes(line) ==
    WordBytes(line.words)
    + (IF Len(line.words) > 1 THEN Len(line.words) - 1 ELSE 0) + line.blanks

\* scanner.Scan(): true when a line is left and it fits the buffer; a longer
\* line ends the scanning (bufio.ErrTooLong) as the end of the input does
Scan(lines, k) == k < Len(lines) /\ Bytes(lines[k + 1]) < MaxScanTokenSize

\* lexer.New(line): the lexer skips the blanks of the line
LineLexer(line) == NewLexer(Toks(line.words))

\* fmt.Printf("%s", PROMPT)
StartPrompt ==
    /\ at = "prompt"
    /\ out' = Append(out, PROMPT)
    /\ at' = "scan"
    /\ UNCHANGED <<stdin, scanned, lex, parserVars, envVars, tokVars>>

\* scanned := scanner.Scan(); if !scanned { return }; line := scanner.Text();
\* l := lexer.New(line)
StartScan ==
    /\ at = "scan"
    /\ IF Scan(stdin, scanned)
       THEN /\ scanned' = scanned + 1
            /\ lex' = LineLexer(stdin[scanned + 1])
            /\ at' = "tokens"
       ELSE /\ at' = "returned"
            /\ UNCHANGED <<scanned, lex>>
    /\ UNCHANGED <<stdin, out, parserVars, envVars, tokVars>>

\* one turn of the token loop
StartToken ==
    /\ at = "tokens"
    /\ lex' = TokenLoopStep(lex, out).l
    /\ out' = TokenLoopStep(lex, out).out
    /\ at' = IF TokenLoopStep(lex, out).more THEN "tokens" ELSE "prompt"
    /\ UNCHANGED <<stdin, scanned, parserVars, envVars, tokVars>>

InitRepl ==
    /\ InitParser(<<>>)
    /\ chain = NoChain
    /\ InitEnvs
    /\ InitTok
    /\ stdin \in UNION {[1..n -> Lines] : n \in 0..MaxLines}
    /\ scanned = 0
    /\ lex = NewLexer(<<>>)
    /\ out = <<>>
    /\ at = "prompt"

NextRepl ==
    \/ StartPrompt
    \/ StartScan
    \/ StartToken

\* Start runs on: no step of it waits for anything but its input
SpecRepl == InitRepl /\ [][NextRepl]_vars /\ WF_vars(NextRepl)

\* what Start is to print for the lines given: for each line the prompt and
\* then its tokens, and a last prompt
RECURSIVE Transcript(_)
Transcript(lines) ==
    IF lines = <<>> THEN <<PROMPT>>
    ELSE <<PROMPT>>
         \o [i \in 1..Len(lines[1].words) |->
                FormatToken(Tok(lines[1].words[i]))]
         \o Transcript(Tail(lines))

Prompts(printed) == Cardinality({i \in 1..Len(printed) : printed[i] = PROMPT})

\* C11: Start returns; when it has, it has printed for each line the prompt
\* and the line's tokens in order, then one more prompt, n + 1 prompts in
\* all and no EOF token; every read attempt is preceded by its own prompt.
C11_StartPromptsAndPrintsTokens ==
    /\ <>(at = "returned")
    /\ [](at = "returned" =>
            /\ out = Transcript(stdin)
            /\ Prompts(out) = Len(stdin) + 1
            /\ \A i \in 1..Len(out) : out[i] # FormatToken(EOFToken))
    /\ [](at = "scan" => Prompts(out) = scanned + 1)
    /\ [](at \in {"tokens", "prompt"} => Prompts(out) = scanned)

\* Start returned after two lines, the second one of two tokens, each short
\* enough for the scanner: there it printed what C11 says.
C11_ShortLinesWitness ==
    /\ at = "returned"
    /\ Len(stdin) = 2
    /\ Len(stdin[2].words) = 2
    /\ \A i \in 1..2 : stdin[i].blanks = 0
    /\ out = Transcript(stdin)

(***************************************************************************)
(* The statement lists                                                     *)
(***************************************************************************)
\* every element of a statement list is a statement node that can be used
Usable(statements) ==
    \A i \in 1..Len(statements) :
        statements[i] # Nil /\ statements[i] # NilLetStatement

\* C12: when ParseProgram has returned, no element of Program.Statements
\* and no element of the Statements of any block is null: a let statement
\* that failed at its name or at its `=` left no entry.
C12_StatementListsHoldNoNull ==
    Returned =>
        /\ Usable(program)
        /\ \A i \in 1..Len(Nodes) :
               (Nodes[i] # Nil /\ Nodes[i] # NilLetStatement
                    /\ Nodes[i].node = "BlockStatement")
                   => Usable(Nodes[i].Statements)

(***************************************************************************)
(* The cursor convention of the parse functions                            *)
(***************************************************************************)
\* the tokens an expression can end with
LastTokens == {IDENT, INT, STRING_, TRUE_, FALSE_, RPAREN, RBRACE}

\* where a parse function registered for a token of kind t, entered in
\* `before`, is to leave the cursor
EndsOn(t, fn, before, after) ==
    CASE fn \in {"parseIdentifier", "parseIntegerLiteral", "parseBoolean",
                 "parseStringLiteral"} ->
             after.curToken = before.curToken /\ after.l = before.l
      [] fn \in {"parseGroupedExpression", "parseCallExpression"} ->
             after.curToken.Type = RPAREN
      [] fn \in {"parseIfExpression", "parseFunctionLiteral"} ->
             after.curToken.Type = RBRACE
      [] fn \in {"parsePrefixExpression", "parseInfixExpression"} ->
             after.curToken.Type \in LastTokens

\* the parse function did its work: an expression and no new error
Parsed(before, r) == r.v # Nil /\ r.p.errors = before.errors

\* C13: at the start of a statement, the prefix parse function registered
\* for curToken, when it yields an expression without recording an error,
\* leaves curToken on the last token of that expression; the infix parse
\* function registered for the token that follows is entered on that
\* token and leaves curToken on the last token of what it parsed.
C13_CursorConvention ==
    (pc = "parse" /\ curToken.Type \in DOMAIN prefixParseFns) =>
        LET r == CallPrefix(Parser)
            q == nextToken(r.p)
        IN Parsed(Parser, r) =>
             /\ EndsOn(curToken.Type, prefixParseFns[curToken.Type], Parser,
                       r.p)
             /\ r.p.peekToken.Type \in DOMAIN infixParseFns =>
                  /\ q.curToken = r.p.peekToken
                  /\ Parsed(q, CallInfix(q, r.v)) =>
                       EndsOn(q.curToken.Type, infixParseFns[q.curToken.Type],
                              q, CallInfix(q, r.v).p)

(***************************************************************************)
(* The two tokens of look-ahead                                            *)
(***************************************************************************)
\* the k-th token the lexer delivers: the tokens of the input, then EOF
Delivered(k) == IF k <= Len(l.tokens) THEN l.tokens[k] ELSE EOFToken

\* C14: once New has returned, the lexer has been asked for k + 1 tokens,
\* curToken is the k-th of them and peekToken the (k+1)-th, for some
\* k >= 1; and nextToken asks the lexer for exactly one more token, moves
\* peekToken into curToken and puts the new token into peekToken, touching
\* nothing else.
C14_TwoTokenLookAhead ==
    pc # "new" =>
        /\ l.position >= 2
        /\ curToken = Delivered(l.position - 1)
        /\ peekToken = Delivered(l.position)
        /\ LET q == nextToken(Parser)
           IN /\ q.l.position = l.position + 1
              /\ q.l.tokens = l.tokens
              /\ q.curToken = peekToken
              /\ q.peekToken = Delivered(l.position + 1)
              /\ q.errors = errors

\* ParseProgram is between two statements, in the middle of the input, on
\* two tokens that differ.
C14_Witness ==
    /\ pc = "parse"
    /\ l.position >= 4
    /\ l.position < Len(l.tokens)
    /\ curToken # peekToken
    /\ program # <<>>

(***************************************************************************)
(* Blocks left open                                                        *)
(***************************************************************************)
\* how many tokens of the kind there are
Count(tokens, kind) ==
    Cardinality({i \in 1..Len(tokens) : tokens[i].Type = kind})

\* C15: when ParseProgram has returned and Errors() is empty, no block is
\* open at the end of the input: every `{` has its `}` (in an error-free
\* parse every `{` opens a block and every `}` closes one).
C15_NoErrorMeansBlocksClosed ==
    (Returned /\ errors = <<>>) =>
        Count(l.tokens, LBRACE) = Count(l.tokens, RBRACE)

(***************************************************************************)
(* Integer literals: programs of one INT token                             *)
(***************************************************************************)
\* most digits of the literals enumerated exhaustively
MaxDigits == 3

DigitChars == {Digits[d + 1] : d \in 0..9}

\* the digits of a value, most significant first
Numeral(v) == [i \in 1..Len(v) |-> Digits[v[Len(v) + 1 - i] + 1]]

\* math.MaxInt64 in base 8
OctalMaxInt64 == [i \in 1..21 |-> "7"]

\* literals at the two ends of the 64-bit range, in base 10 and in base 8
RangeEnds ==
    {Numeral(MaxInt64), Numeral(MulAdd(MaxInt64, 1, 1)),
     <<"0">> \o OctalMaxInt64, <<"0", "1">> \o [i \in 1..21 |-> "0"]}

DigitRuns == UNION {[1..n -> DigitChars] : n \in 1..MaxDigits} \cup RangeEnds

InitInt ==
    /\ \E s \in DigitRuns : InitParser(<<Token(INT, s)>>)
    /\ chain = NoChain
    /\ InitOthers

SpecInt == InitInt /\ [][Next]_vars

\* the digit run read digit by digit, least significant first
DigitsOf(s) == [i \in 1..Len(s) |-> DigitVal(s[Len(s) + 1 - i])]

\* a value without its leading zeros
RECURSIVE Canonical(_)
Canonical(v) ==
    IF v # <<>> /\ v[Len(v)] = 0 THEN Canonical(SubSeq(v, 1, Len(v) - 1))
    ELSE v

\* the number a short digit run denotes in the base
RECURSIVE Horner(_, _)
Horner(s, base) ==
    IF s = <<>> THEN 0
    ELSE Horner(SubSeq(s, 1, Len(s) - 1), base) * base + DigitVal(s[Len(s)])

\* the number a value of few digits is
RECURSIVE NatOf(_)
NatOf(v) == IF v = <<>> THEN 0 ELSE Head(v) + 10 * NatOf(Tail(v))

\* the literal parsed and what became of it
Literal == l.tokens[1].Literal
IntegerParsed == pc = "done" /\ Len(l.tokens) = 1 /\ l.tokens[1].Type = INT
Rejected ==
    /\ errors = <<"could not parse \"" \o Str(Literal) \o "\" as integer">>
    /\ program[1].Expression = Nil
Accepted ==
    /\ errors = <<>>
    /\ program[1].Expression.node = "IntegerLiteral"

\* C16 as stated: the Value of a digit run is its decimal value, leading
\* zeros included, when that fits in 64 bits, and the literal is rejected
\* only when it does not fit.
C16_DecimalValue ==
    IntegerParsed =>
        IF LessEq(Canonical(DigitsOf(Literal)), MaxInt64)
        THEN Accepted
             /\ program[1].Expression.Value = Canonical(DigitsOf(Literal))
        ELSE Rejected

\* C16, amended: a digit run that does not begin with 0 is read in base 10
\* and is accepted exactly when its value is at most MaxInt64, the digits of
\* Value being those of the literal; a digit run that begins with 0 is read
\* without that 0 in base 8: it is rejected when it holds an 8 or a 9 or
\* does not fit, and accepted otherwise with the base-8 value.
C16_BaseFromLeadingZero ==
    IntegerParsed =>
        IF Literal[1] # "0"
        THEN IF LessEq(DigitsOf(Literal), MaxInt64)
             THEN Accepted /\ Numeral(program[1].Expression.Value) = Literal
             ELSE Rejected
        ELSE IF \E i \in 2..Len(Literal) : Literal[i] \in {"8", "9"}
             THEN Rejected
             ELSE IF Len(Literal) <= 9
             THEN Accepted
                  /\ NatOf(program[1].Expression.Value)
                        = Horner(Tail(Literal), 8)
             ELSE IF Tail(Literal) = OctalMaxInt64
             THEN Accepted /\ program[1].Expression.Value = MaxInt64
             ELSE Rejected

\* `010` was parsed: the value is 8.
C16_Witness ==
    /\ IntegerParsed
    /\ Literal = <<"0", "1", "0">>
    /\ Accepted
    /\ program[1].Expression.Value = <<8>>

====
